---- MODULE Spec2Model ----
(***************************************************************************)
(* Model of run_screening.py: the parametric sweep over a plug-flow        *)
(* reactor and a distillation column, the per-case failure handling of     *)
(* simulate_pfr / simulate_distillation, and the CSV export.               *)
(*                                                                         *)
(* The simulation engine (DWSIM Automation3) is an external collaborator:  *)
(* every call into it either returns or raises, chosen nondeterministically.*)
(* Decimal literals of the source are held in tenths (0.5 -> 5, 1.0 -> 10, *)
(* 50.0 -> 500); integer literals (temperatures, stages) are held as is.   *)
(***************************************************************************)
EXTENDS Integers, Sequences, FiniteSets, TLC

\* ------------------------------------------------------------------ bounds
\* How many values of each declared grid the sweep visits.
NVolumes == 2
NTemperatures == 2
NStages == 1
NReflux == 2
\* How many cases of one run may meet a failing engine call.
MaxFail == 1

\* ------------------------------------------------------------- small helpers
Min(S) == CHOOSE x \in S : \A y \in S : x <= y

Max2(a, b) == IF a >= b THEN a ELSE b

Prefix(s, n) == SubSeq(s, 1, IF n <= Len(s) THEN n ELSE Len(s))

Range(s) == {s[k] : k \in 1..Len(s)}

\* Python's None; no modelled string equals it.
None == "<None>"

\* ------------------------------------------------------------ the two grids
volumes == Prefix(<<5, 10, 20, 50>>, NVolumes)

temperatures == Prefix(<<80, 100, 120, 150>>, NTemperatures)

stages == Prefix(<<8, 10, 15, 20>>, NStages)

reflux_ratios == Prefix(<<15, 20, 30, 40>>, NReflux)

OuterGrid(t) == IF t = "PFR" THEN volumes ELSE stages

InnerGrid(t) == IF t = "PFR" THEN temperatures ELSE reflux_ratios

\* feed_stage = max(3, n_stage // 2)
feed_stage_of(n_stage) == Max2(3, n_stage \div 2)

\* ------------------------------------------------------------ result records
\* The dict simulate_pfr starts from.
pfr_result(volume_m3, temperature_c) ==
    [case_type |-> "PFR", volume_m3 |-> volume_m3, temperature_c |-> temperature_c,
     pressure_bar |-> 10, success |-> FALSE, error |-> None]

\* The dict simulate_distillation starts from.
distillation_result(n_stages, reflux_ratio) ==
    [case_type |-> "Distillation", n_stages |-> n_stages,
     feed_stage |-> feed_stage_of(n_stages), reflux_ratio |-> reflux_ratio,
     distillate_rate |-> 500, success |-> FALSE, error |-> None]

\* Variant: the outer grid walked from its far end.
Combination_reversed(t, i, j) ==
    <<OuterGrid(t)[Len(OuterGrid(t)) + 1 - i], InnerGrid(t)[j]>>

\* The (i, j)-th combination of the nested loops of sweep t: i indexes the
\* outer grid, j the inner one.
Combination(t, i, j) == <<OuterGrid(t)[i], InnerGrid(t)[j]>>

\* The dict the (i, j)-th combination of sweep t starts from.
InitialResult(t, i, j) ==
    IF t = "PFR" THEN pfr_result(Combination(t, i, j)[1], Combination(t, i, j)[2])
    ELSE distillation_result(Combination(t, i, j)[1], Combination(t, i, j)[2])

\* dict.update / item assignment: keys of u replace or extend those of r.
Update(r, u) ==
    [k \in (DOMAIN r) \cup (DOMAIN u) |-> IF k \in DOMAIN u THEN u[k] ELSE r[k]]

\* A scalar read back from the engine; its magnitude is the engine's business.
EngineScalar == "<engine value>"

\* The fields result.update(...) adds after a successful read-back.
pfr_outputs ==
    [success |-> TRUE, conversion |-> 5, outlet_B_flow_mol_s |-> EngineScalar,
     outlet_temperature_c |-> EngineScalar, heat_duty_kW |-> EngineScalar,
     outlet_pressure_bar |-> EngineScalar]

distillation_outputs ==
    [success |-> TRUE, distillate_purity_light |-> EngineScalar,
     bottoms_purity_heavy |-> EngineScalar, condenser_duty_kW |-> EngineScalar,
     reboiler_duty_kW |-> EngineScalar, condenser_temp_c |-> EngineScalar]

Outputs(t) == IF t = "PFR" THEN pfr_outputs ELSE distillation_outputs

\* The case-type-specific output fields.
OutputKeys(t) == (DOMAIN Outputs(t)) \ {"success"}

\* The input-parameter fields of a record of case type t.
InputKeys(t) ==
    IF t = "PFR" THEN {"volume_m3", "temperature_c", "pressure_bar"}
    ELSE {"n_stages", "feed_stage", "reflux_ratio", "distillate_rate"}

\* The compounds each case type asks setup_compounds for.
Compounds(t) == IF t = "PFR" THEN <<"Ethane", "Propane">> ELSE <<"Benzene", "Toluene">>

\* ------------------------------------------------------- setup_compounds
\* The engine's compound database is outside the program: it may lack a name.
AllCompounds == {"Ethane", "Propane", "Benzene", "Toluene"}

DbChoices == {AllCompounds, AllCompounds \ {"Propane"}}

\* Which engine call of a method raises: 0 none, 1 the call before the loop
\* (GetCompounds, QTFillCompoundsList), k + 1 the call made for list[k].
RaisePoints(list) == 0..(Len(list) + 1)

\* Method 1: compounds the database lacks are skipped without a word.
Method1Raises(list, db, r) == r = 1 \/ (r >= 2 /\ list[r - 1] \in db)

Method1Added(list, db, r) ==
    IF r = 1 THEN {}
    ELSE {list[k] : k \in {n \in 1..Len(list) :
              list[n] \in db /\ (Method1Raises(list, db, r) => n < r - 1)}}

\* Method 1 reached self.flowsheet.SelectedCompounds at least once.
Method1Touches(list, db, r) == r # 1 /\ \E k \in 1..Len(list) : list[k] \in db

\* Method 2: AvailableCompounds[name] raises for a name the engine lacks.
Method2Bad(list, db, r) == {k \in 1..Len(list) : list[k] \notin db \/ r = k + 1}

Method2Raises(list, db, r) == r = 1 \/ Method2Bad(list, db, r) # {}

Method2Stop(list, db, r) ==
    IF r = 1 THEN 0
    ELSE IF Method2Bad(list, db, r) = {} THEN Len(list) + 1
    ELSE Min(Method2Bad(list, db, r))

Method2Added(list, db, r) ==
    {list[k] : k \in {n \in 1..Len(list) :
         n < Method2Stop(list, db, r)}}

\* Method 3: self.flowsheet.AddComponent(name), raising at the r-th name.
Method3Raises(list, r) == r \in 1..Len(list)

Method3Added(list, db, r) ==
    {list[k] : k \in {n \in 1..Len(list) :
         list[n] \in db /\ (Method3Raises(list, r) => n < r)}}

\* setup_compounds: the first method that does not raise returns True;
\* False only when all three raised.  [ok, selected, touched]
setup_compounds(list, selected, db, r1, r2, r3) ==
    IF ~Method1Raises(list, db, r1)
    THEN [ok |-> TRUE, selected |-> selected \cup Method1Added(list, db, r1),
          touched |-> Method1Touches(list, db, r1)]
    ELSE IF ~Method2Raises(list, db, r2)
    THEN [ok |-> TRUE,
          selected |-> selected \cup Method1Added(list, db, r1)
                                \cup Method2Added(list, db, r2),
          touched |-> TRUE]
    ELSE [ok |-> ~Method3Raises(list, r3),
          selected |-> selected \cup Method1Added(list, db, r1)
                                \cup Method2Added(list, db, r2)
                                \cup Method3Added(list, db, r3),
          touched |-> TRUE]

\* ------------------------------------------------------- export_results
\* Key names as code points: Python orders str by code point.
KeyCodes(k) ==
    CASE k = "case_type" -> <<99, 97, 115, 101, 95, 116, 121, 112, 101>>
      [] k = "volume_m3" -> <<118, 111, 108, 117, 109, 101, 95, 109, 51>>
      [] k = "temperature_c" -> <<116, 101, 109, 112, 101, 114, 97, 116, 117, 114, 101, 95, 99>>
      [] k = "pressure_bar" -> <<112, 114, 101, 115, 115, 117, 114, 101, 95, 98, 97, 114>>
      [] k = "success" -> <<115, 117, 99, 99, 101, 115, 115>>
      [] k = "error" -> <<101, 114, 114, 111, 114>>
      [] k = "traceback" -> <<116, 114, 97, 99, 101, 98, 97, 99, 107>>
      [] k = "conversion" -> <<99, 111, 110, 118, 101, 114, 115, 105, 111, 110>>
      [] k = "outlet_B_flow_mol_s" -> <<111, 117, 116, 108, 101, 116, 95, 66, 95, 102, 108, 111, 119, 95, 109, 111, 108, 95, 115>>
      [] k = "outlet_temperature_c" -> <<111, 117, 116, 108, 101, 116, 95, 116, 101, 109, 112, 101, 114, 97, 116, 117, 114, 101, 95, 99>>
      [] k = "heat_duty_kW" -> <<104, 101, 97, 116, 95, 100, 117, 116, 121, 95, 107, 87>>
      [] k = "outlet_pressure_bar" -> <<111, 117, 116, 108, 101, 116, 95, 112, 114, 101, 115, 115, 117, 114, 101, 95, 98, 97, 114>>
      [] k = "n_stages" -> <<110, 95, 115, 116, 97, 103, 101, 115>>
      [] k = "feed_stage" -> <<102, 101, 101, 100, 95, 115, 116, 97, 103, 101>>
      [] k = "reflux_ratio" -> <<114, 101, 102, 108, 117, 120, 95, 114, 97, 116, 105, 111>>
      [] k = "distillate_rate" -> <<100, 105, 115, 116, 105, 108, 108, 97, 116, 101, 95, 114, 97, 116, 101>>
      [] k = "distillate_purity_light" -> <<100, 105, 115, 116, 105, 108, 108, 97, 116, 101, 95, 112, 117, 114, 105, 116, 121, 95, 108, 105, 103, 104, 116>>
      [] k = "bottoms_purity_heavy" -> <<98, 111, 116, 116, 111, 109, 115, 95, 112, 117, 114, 105, 116, 121, 95, 104, 101, 97, 118, 121>>
      [] k = "condenser_duty_kW" -> <<99, 111, 110, 100, 101, 110, 115, 101, 114, 95, 100, 117, 116, 121, 95, 107, 87>>
      [] k = "reboiler_duty_kW" -> <<114, 101, 98, 111, 105, 108, 101, 114, 95, 100, 117, 116, 121, 95, 107, 87>>
      [] k = "condenser_temp_c" -> <<99, 111, 110, 100, 101, 110, 115, 101, 114, 95, 116, 101, 109, 112, 95, 99>>

\* a < b for two sequences of code points, as Python compares two str.
RECURSIVE CodesLess(_, _)
CodesLess(a, b) ==
    IF b = <<>> THEN FALSE
    ELSE IF a = <<>> THEN TRUE
    ELSE IF Head(a) # Head(b) THEN Head(a) < Head(b)
    ELSE CodesLess(Tail(a), Tail(b))

KeyLess(a, b) == CodesLess(KeyCodes(a), KeyCodes(b))

\* all_keys: the union of the keys of every record.
all_keys(rs) == UNION {DOMAIN rs[k] : k \in 1..Len(rs)}

\* Every key a result dict can hold.
KeyNames ==
    {"case_type", "success", "error", "traceback"}
        \cup InputKeys("PFR") \cup InputKeys("Distillation")
        \cup OutputKeys("PFR") \cup OutputKeys("Distillation")

\* list.sort by code point on a set of keys.
RECURSIVE SortKeys(_)
SortKeys(S) ==
    IF S = {} THEN <<>>
    ELSE LET m == CHOOSE x \in S : \A y \in S \ {x} : KeyLess(x, y)
         IN  <<m>> \o SortKeys(S \ {m})

\* All keys in ascending order (evaluated once).
KeyOrder == SortKeys(KeyNames)

\* Variant: the keys in descending order.
sorted_descending(S) ==
    LET up == SelectSeq(KeyOrder, LAMBDA k : k \in S)
    IN  [n \in 1..Len(up) |-> up[Len(up) + 1 - n]]

\* sorted(all_keys): the keys of S in ascending order by code point.
sorted(S) == LET Member(k) == k \in S IN SelectSeq(KeyOrder, Member)

\* Only 'error' is ever None.
IsNone(r, k) == k = "error" /\ r[k] = None

Cell(r, k) == IF k \in DOMAIN r /\ ~IsNone(r, k) THEN <<r[k]>> ELSE <<>>

\* DictWriter.writerow: one cell per field name; a key of the row missing
\* from fieldnames raises ValueError.
RowRaises(r, fieldnames) == ~((DOMAIN r) \subseteq Range(fieldnames))

writerow(r, fieldnames) == [n \in 1..Len(fieldnames) |-> Cell(r, fieldnames[n])]

\* The rows written before the first row that raises.
FirstBadRow(rs, fieldnames) ==
    IF \E k \in 1..Len(rs) : RowRaises(rs[k], fieldnames)
    THEN Min({k \in 1..Len(rs) : RowRaises(rs[k], fieldnames)})
    ELSE Len(rs) + 1

\* export_results with fault "none", "open" (open() raises) or "write"
\* (the write of row n + 1 raises, after n rows were written).  [raised, header, rows]
export_results(rs, fault, n) ==
    LET fieldnames == sorted(all_keys(rs))
        stop == IF fault = "write" /\ n + 1 < FirstBadRow(rs, fieldnames)
                THEN n + 1 ELSE FirstBadRow(rs, fieldnames)
    IN  IF fault = "open"
        THEN [raised |-> TRUE, header |-> <<>>, rows |-> <<>>]
        ELSE [raised |-> stop <= Len(rs),
              header |-> fieldnames,
              rows   |-> [k \in 1..(stop - 1) |-> writerow(rs[k], fieldnames)]]

\* ------------------------------------------------------------------ state
VARIABLES
    pc,         \* where the program is
    sweep,      \* the sweep running: "PFR" or "Distillation"
    i, j,       \* positions of the outer and the inner loop
    result,     \* the dict of the case being simulated
    results,    \* self.results
    flowsheet,  \* self.flowsheet: 0 is None, else the engine's flowsheet id
    nextId,     \* the id the engine gives its next flowsheet
    openFs,     \* flowsheets the engine holds: created and never closed
    selected,   \* SelectedCompounds of the flowsheet self.flowsheet names
    db,         \* the engine's compound database
    failures,   \* cases that met a failing engine call so far
    faulty,     \* the running case met a failing engine call
    caseFs,     \* the flowsheet the running case created (0: none)
    opTarget,   \* the flowsheet the running case last operated on (0: none)
    fsAtStart,  \* self.flowsheet when the running case began
    outcome,    \* the step at which the running case failed, or "ok"
    outcomes,   \* outcome of every finished case, in order
    attempts,   \* combinations handed to simulate_*, in order
    fatal,      \* what raised up to main or stopped the process ("none")
    exitCode,   \* process exit code (-1 while running)
    csvfile     \* results.csv: header and rows written

vars == <<pc, sweep, i, j, result, results, flowsheet, nextId, openFs, selected,
          db, failures, faulty, caseFs, opTarget, fsAtStart, outcome, outcomes,
          attempts, fatal, exitCode, csvfile>>

engineVars == <<flowsheet, nextId, openFs, selected, db>>

caseVars == <<result, caseFs, opTarget, fsAtStart, outcome>>

loopVars == <<sweep, i, j>>

logVars == <<results, outcomes, attempts>>

endVars == <<fatal, exitCode, csvfile>>

NoFile == [header |-> <<>>, rows |-> <<>>]

Init ==
    /\ pc = "load"
    /\ sweep = "PFR"
    /\ i = 1
    /\ j = 1
    /\ result = [success |-> FALSE]
    /\ results = <<>>
    /\ flowsheet = 0
    /\ nextId = 1
    /\ openFs = {}
    /\ selected = {}
    /\ db \in DbChoices
    /\ failures = 0
    /\ faulty = FALSE
    /\ caseFs = 0
    /\ opTarget = 0
    /\ fsAtStart = 0
    /\ outcome = "none"
    /\ outcomes = <<>>
    /\ attempts = <<>>
    /\ fatal = "none"
    /\ exitCode = -1
    /\ csvfile = NoFile

\* A further engine call of the running case may fail.
CanFail == faulty \/ failures < MaxFail

Fault ==
    /\ faulty' = TRUE
    /\ failures' = IF faulty THEN failures ELSE failures + 1

NoFault == UNCHANGED <<faulty, failures>>

\* Variant: main's handler ends the process with status 0.
main_exit_zero(raised) == 0

\* The exit status main ends with: sys.exit(1) from its handler, 0 otherwise.
main_exit(raised) == IF raised THEN 1 ELSE 0

\* Module level: clr.AddReference of the DWSIM assemblies; sys.exit(1) if one
\* cannot be loaded.
LoadAssemblies ==
    /\ pc = "load"
    /\ \E ok \in BOOLEAN :
         IF ok THEN /\ pc' = "main"
                    /\ UNCHANGED endVars
         ELSE /\ pc' = "exit"
              /\ fatal' = "assemblies"
              /\ exitCode' = 1
              /\ UNCHANGED csvfile
    /\ UNCHANGED <<engineVars, caseVars, loopVars, logVars, faulty, failures>>

\* main: dwsim = DWSIMAutomation(); Automation3() may raise into main's handler.
main_init ==
    /\ pc = "main"
    /\ \E ok \in BOOLEAN :
         IF ok THEN /\ pc' = "loop"
                    /\ UNCHANGED endVars
         ELSE /\ pc' = "exit"
              /\ fatal' = "session"
              /\ exitCode' = main_exit(TRUE)
              /\ UNCHANGED csvfile
    /\ UNCHANGED <<engineVars, caseVars, loopVars, logVars, faulty, failures>>

\* Both loops of a sweep are exhausted.
SweepDone == i > Len(OuterGrid(sweep))

\* main: run_pfr_parametric_sweep() has returned, run_distillation_... begins;
\* after that one, export_results is called.
NextSweep ==
    /\ pc = "loop"
    /\ SweepDone
    /\ IF sweep = "PFR"
       THEN /\ sweep' = "Distillation"
            /\ i' = 1
            /\ j' = 1
            /\ pc' = "loop"
       ELSE /\ pc' = "export"
            /\ UNCHANGED loopVars
    /\ UNCHANGED <<engineVars, caseVars, logVars, endVars, faulty, failures>>

\* The loop body calls simulate_*: the result dict is built from the arguments.
BeginCase ==
    /\ pc = "loop"
    /\ ~SweepDone
    /\ result' = InitialResult(sweep, i, j)
    /\ attempts' = Append(attempts, <<sweep>> \o Combination(sweep, i, j))
    /\ caseFs' = 0
    /\ opTarget' = 0
    /\ fsAtStart' = flowsheet
    /\ outcome' = "running"
    /\ faulty' = FALSE
    /\ pc' = "create"
    /\ UNCHANGED <<engineVars, loopVars, results, outcomes, endVars, failures>>

\* ------------------------------------------------- simulate_pfr / _distillation
\* str(e) and traceback.format_exc() of a caught engine exception.
EngineMessage == "<engine message>"

Traceback == "<traceback>"

\* Variant: create_flowsheet reports success whatever happened.
create_flowsheet_always(created) == TRUE

\* create_flowsheet's return value, given whether CreateFlowsheet() returned.
create_flowsheet(created) == created

\* The early return taken when a setup helper returned False.
early_return(r, message) == Update(r, [error |-> message])

\* The handler of the outer try: except Exception as e.
except_handler(r) == Update(r, [error |-> EngineMessage, traceback |-> Traceback])

\* Variant: success was set before the read-back failed.
extract_failed_marked(r) ==
    Update(r, [success |-> TRUE,
               error |-> "Error extracting results: <engine message>",
               traceback |-> Traceback])

\* The handler of the inner try around the read-back of the outputs.
extract_failed(r) ==
    Update(r, [error |-> "Error extracting results: <engine message>",
               traceback |-> Traceback])

\* result.update({...}) after every output was read back.
extract_succeeded(t, r) == Update(r, Outputs(t))

\* Variant: the solve call sits outside the try block.
propagates_solve(step) == step = "solve"

\* An exception raised by the named step inside the outer try leaves
\* simulate_*: never, every such step is under except Exception.
propagates(step) == FALSE

\* create_flowsheet: self.flowsheet is assigned only when CreateFlowsheet()
\* returned; the case returns at once when create_flowsheet returned False.
StepCreate ==
    /\ pc = "create"
    /\ \E created \in BOOLEAN :
         /\ IF created
            THEN /\ flowsheet' = nextId
                 /\ nextId' = nextId + 1
                 /\ openFs' = openFs \cup {nextId}
                 /\ selected' = {}
                 /\ caseFs' = nextId
                 /\ NoFault
            ELSE /\ CanFail
                 /\ Fault
                 /\ UNCHANGED <<flowsheet, nextId, openFs, selected, caseFs>>
         /\ IF create_flowsheet(created)
            THEN /\ pc' = "compounds"
                 /\ UNCHANGED <<result, outcome>>
            ELSE /\ pc' = "return"
                 /\ result' = early_return(result, "Failed to create flowsheet")
                 /\ outcome' = "create"
    /\ UNCHANGED <<db, opTarget, fsAtStart, loopVars, logVars, endVars>>

\* setup_compounds(["Ethane", "Propane"]) / (["Benzene", "Toluene"]).
StepCompounds ==
    /\ pc = "compounds"
    /\ \E r1, r2, r3 \in RaisePoints(Compounds(sweep)) :
         LET sc == setup_compounds(Compounds(sweep), selected, db, r1, r2, r3)
             injected == r1 # 0 \/ r2 # 0 \/ r3 # 0
         IN  /\ IF injected THEN CanFail /\ Fault ELSE NoFault
             /\ selected' = sc.selected
             /\ opTarget' = IF sc.touched THEN flowsheet ELSE opTarget
             /\ IF sc.ok
                THEN /\ pc' = "package"
                     /\ UNCHANGED <<result, outcome>>
                ELSE /\ pc' = "return"
                     /\ result' = early_return(result, "Failed to add compounds")
                     /\ outcome' = "compounds"
    /\ UNCHANGED <<flowsheet, nextId, openFs, db, caseFs, fsAtStart,
                   loopVars, logVars, endVars>>

\* setup_property_package: CreatePropertyPackage, then PropertyPackages.Add
\* on self.flowsheet; either may raise, and the helper then returns False.
StepPackage ==
    /\ pc = "package"
    /\ \E f \in {"none", "create", "add"} :
         /\ IF f = "none" THEN NoFault ELSE CanFail /\ Fault
         /\ opTarget' = IF f = "create" THEN opTarget ELSE flowsheet
         /\ IF f = "none"
            THEN /\ pc' = "build"
                 /\ UNCHANGED <<result, outcome>>
            ELSE /\ pc' = "return"
                 /\ result' = early_return(result, "Failed to setup property package")
                 /\ outcome' = "package"
    /\ UNCHANGED <<engineVars, caseFs, fsAtStart, loopVars, logVars, endVars>>

\* What a step inside the outer try does when an engine call of it raises.
Raise(step) ==
    IF propagates(step)
    THEN /\ pc' = "exit"
         /\ fatal' = "case"
         /\ exitCode' = main_exit(TRUE)
         /\ UNCHANGED <<result, outcome, csvfile>>
    ELSE /\ pc' = "return"
         /\ result' = except_handler(result)
         /\ outcome' = step
         /\ UNCHANGED endVars

\* Streams, unit operation, connections (and the reaction of the PFR case):
\* AddObject, SetPropertyValue, Calculate, ConnectObjects, AddReaction.
StepBuild ==
    /\ pc = "build"
    /\ opTarget' = flowsheet
    /\ \E ok \in BOOLEAN :
         IF ok THEN /\ NoFault
                    /\ pc' = "solve"
                    /\ UNCHANGED <<result, outcome, endVars>>
         ELSE /\ CanFail
              /\ Fault
              /\ Raise("build")
    /\ UNCHANGED <<engineVars, caseFs, fsAtStart, loopVars, logVars>>

\* self.flowsheet.SolveFlowsheet()
StepSolve ==
    /\ pc = "solve"
    /\ opTarget' = flowsheet
    /\ \E ok \in BOOLEAN :
         IF ok THEN /\ NoFault
                    /\ pc' = "extract"
                    /\ UNCHANGED <<result, outcome, endVars>>
         ELSE /\ CanFail
              /\ Fault
              /\ Raise("solve")
    /\ UNCHANGED <<engineVars, caseFs, fsAtStart, loopVars, logVars>>

\* The read-back: GetPropertyValue on the product streams and the unit; the
\* dict gets success = True and the outputs only after every read returned.
StepExtract ==
    /\ pc = "extract"
    /\ \E ok \in BOOLEAN :
         IF ok THEN /\ NoFault
                    /\ result' = extract_succeeded(sweep, result)
                    /\ outcome' = "ok"
         ELSE /\ CanFail
              /\ Fault
              /\ result' = extract_failed(result)
              /\ outcome' = "extract"
    /\ pc' = "return"
    /\ UNCHANGED <<engineVars, caseFs, opTarget, fsAtStart, loopVars, logVars, endVars>>

\* ------------------------------------------------------------ the sweep driver
\* Variant: only successful cases are kept.
driver_append_success(rs, r) == IF r.success THEN Append(rs, r) ELSE rs

\* self.results.append(result)
driver_append(rs, r) == Append(rs, r)

\* simulate_* returned: the driver appends the dict and the loops advance.
Return ==
    /\ pc = "return"
    /\ results' = driver_append(results, result)
    /\ outcomes' = Append(outcomes, outcome)
    /\ IF j < Len(InnerGrid(sweep))
       THEN /\ j' = j + 1
            /\ UNCHANGED i
       ELSE /\ j' = 1
            /\ i' = i + 1
    /\ pc' = "loop"
    /\ UNCHANGED <<engineVars, caseVars, sweep, attempts, endVars, faulty, failures>>

\* main: dwsim.export_results("results.csv"), then the end of main.
Export ==
    /\ pc = "export"
    /\ IF results = <<>>
       THEN /\ exitCode' = main_exit(FALSE)
            /\ UNCHANGED <<fatal, csvfile>>
       ELSE \E fault \in {"none", "open", "write"}, n \in {0, Len(results) - 1} :
              LET e == export_results(results, fault, n)
              IN  /\ fault # "write" => n = 0
                  /\ csvfile' = IF fault = "open" THEN csvfile
                                ELSE [header |-> e.header, rows |-> e.rows]
                  /\ fatal' = IF e.raised THEN "export" ELSE fatal
                  /\ exitCode' = main_exit(e.raised)
    /\ pc' = "exit"
    /\ UNCHANGED <<engineVars, caseVars, loopVars, logVars, faulty, failures>>

Next ==
    \/ LoadAssemblies
    \/ main_init
    \/ NextSweep
    \/ BeginCase
    \/ StepCreate
    \/ StepCompounds
    \/ StepPackage
    \/ StepBuild
    \/ StepSolve
    \/ StepExtract
    \/ Return
    \/ Export

Spec == Init /\ [][Next]_vars

\* ------------------------------------------------------------------ claims
TotalCases(t) == Len(OuterGrid(t)) * Len(InnerGrid(t))

GridTotal == TotalCases("PFR") + TotalCases("Distillation")

\* Both sweeps have run to completion.
SweepsFinished == pc = "export" \/ (pc = "exit" /\ fatal \in {"none", "export"})

\* Record r belongs to the combination (a, b) of sweep t.
Matches(r, t, a, b) ==
    /\ r.case_type = t
    /\ IF t = "PFR" THEN r.volume_m3 = a /\ r.temperature_c = b
       ELSE r.n_stages = a /\ r.reflux_ratio = b

Failed(k) == ~results[k].success

\* C1: once both sweeps have finished, self.results holds exactly one record
\* per grid combination, however many cases failed.
C1_OneRecordPerCombination ==
    SweepsFinished =>
        /\ Len(results) = GridTotal
        /\ \A t \in {"PFR", "Distillation"} :
             /\ Cardinality({k \in 1..Len(results) : results[k].case_type = t})
                    = TotalCases(t)
             /\ \A a \in Range(OuterGrid(t)), b \in Range(InnerGrid(t)) :
                  Cardinality({k \in 1..Len(results) : Matches(results[k], t, a, b)}) = 1

C1_Witness ==
    /\ SweepsFinished
    /\ \E k \in 1..Len(results) : Failed(k)
    /\ \E k \in 1..Len(results) : ~Failed(k)

\* C2: no failure of an engine call made for a case leaves simulate_*: the
\* driver gets a record for every case it started and goes on to start every
\* remaining combination.
C2_NoCaseFailurePropagates ==
    /\ fatal # "case"
    /\ pc \in {"loop", "export", "exit"} => Len(results) = Len(attempts)
    /\ SweepsFinished => Len(attempts) = GridTotal
    /\ \A k \in 1..Len(outcomes) : outcomes[k] # "ok" => k <= Len(results)

C2_Witness ==
    /\ pc = "create"
    /\ \E k \in 1..Len(outcomes) : outcomes[k] \in {"build", "solve"}

\* C3 (as claimed): at most one engine flowsheet is open at any point of the
\* sweep and none once the process is over, every created flowsheet being
\* closed before its case ends.
C3_AtMostOneOpenFlowsheet ==
    /\ Cardinality(openFs) <= 1
    /\ pc \in {"loop", "export", "exit"} => openFs = {}

\* C4 (as claimed): every failed record holds every case-type-specific
\* output field of its case type.
C4_FailedRecordHasOutputKeys ==
    \A k \in 1..Len(results) :
        Failed(k) => OutputKeys(results[k].case_type) \subseteq DOMAIN results[k]

\* export_results has returned normally on a non-empty self.results.
Exported == pc = "exit" /\ fatal = "none" /\ results # <<>>

\* C5: the header of the written CSV is the ascending union of the keys of
\* all records, and there is one row per record, in order, whose cell for a
\* field the record lacks is empty and for a field it holds is that value.
C5_ExportHeaderAndRows ==
    Exported =>
        /\ \A n \in 1..(Len(csvfile.header) - 1) :
             KeyLess(csvfile.header[n], csvfile.header[n + 1])
        /\ Range(csvfile.header) = UNION {DOMAIN results[k] : k \in 1..Len(results)}
        /\ Len(csvfile.rows) = Len(results)
        /\ \A k \in 1..Len(results) :
             /\ Len(csvfile.rows[k]) = Len(csvfile.header)
             /\ \A n \in 1..Len(csvfile.header) :
                  LET key == csvfile.header[n]
                  IN  /\ key \notin DOMAIN results[k] => csvfile.rows[k][n] = <<>>
                      /\ (key \in DOMAIN results[k] /\ ~IsNone(results[k], key))
                            => csvfile.rows[k][n] = <<results[k][key]>>

C5_Witness ==
    /\ Exported
    /\ \E k \in 1..Len(results) : "traceback" \in DOMAIN results[k]
    /\ \E k \in 1..Len(results) : "conversion" \in DOMAIN results[k]
    /\ \E k \in 1..Len(results) : "condenser_temp_c" \in DOMAIN results[k]

\* C6 (as claimed): the exit code is 0 whenever the sweep completed, and is
\* non-zero only after a setup failure.
C6_NonZeroOnlyOnSetupFailure ==
    pc = "exit" =>
        /\ Len(results) = GridTotal => exitCode = 0
        /\ exitCode # 0 => fatal \in {"assemblies", "session"}

\* C6 (amended): the exit code is 0 exactly when the sweep completed and
\* export_results returned normally, whatever number of cases failed; it is 1
\* after a setup failure or after export_results raised.
C6_ExitCodes ==
    pc = "exit" =>
        /\ exitCode = 0 <=> fatal = "none"
        /\ fatal = "none" =>
             Len(results) = GridTotal /\ Len(csvfile.rows) = Len(results)
        /\ exitCode # 0 =>
             exitCode = 1 /\ fatal \in {"assemblies", "session", "export"}

C6_Witness ==
    /\ pc = "exit"
    /\ exitCode = 0
    /\ \E k \in 1..Len(results) : Failed(k)

\* The k-th combination of the run in nested order: the PFR grid first,
\* outer index slowest.
ExpectedAttempt(k) ==
    LET t == IF k <= TotalCases("PFR") THEN "PFR" ELSE "Distillation"
        m == IF t = "PFR" THEN k - 1 ELSE k - 1 - TotalCases("PFR")
        w == Len(InnerGrid(t))
    IN  <<t, OuterGrid(t)[(m \div w) + 1], InnerGrid(t)[(m % w) + 1]>>

\* C7: the cases are attempted in nested order, outer grid first, each once,
\* all PFR cases before all Distillation cases, and the k-th record carries
\* the inputs of the k-th attempt.
C7_NestedOrder ==
    /\ Len(attempts) <= GridTotal
    /\ \A k \in 1..Len(attempts) : attempts[k] = ExpectedAttempt(k)
    /\ SweepsFinished => Len(attempts) = GridTotal
    /\ Len(results) <= Len(attempts)
    /\ \A k \in 1..Len(results) :
         Matches(results[k], attempts[k][1], attempts[k][2], attempts[k][3])

C7_Witness ==
    /\ SweepsFinished
    /\ \E k \in 1..(Len(results) - 1) : Failed(k) /\ ~Failed(k + 1)

\* The input fields of r are those simulate_* was called with for attempt a.
InputsKept(r, a) ==
    /\ r.case_type = a[1]
    /\ IF a[1] = "PFR"
       THEN r.volume_m3 = a[2] /\ r.temperature_c = a[3] /\ r.pressure_bar = 10
       ELSE /\ r.n_stages = a[2]
            /\ r.reflux_ratio = a[3]
            /\ r.feed_stage = feed_stage_of(a[2])
            /\ r.distillate_rate = 500

C9_CompoundsAllRegistered ==
    pc \in {"package", "build", "solve", "extract"} =>
        Range(Compounds(sweep)) \subseteq selected

\* C10: every engine operation of a case is on the flowsheet that case
\* created; a case whose create_flowsheet failed leaves self.flowsheet as it
\* found it and operates on no flowsheet.
C10_OwnFlowsheetOnly ==
    /\ opTarget # 0 => opTarget = caseFs
    /\ caseFs # 0 => caseFs = flowsheet /\ caseFs # fsAtStart
    /\ outcome = "create" => flowsheet = fsAtStart /\ opTarget = 0 /\ caseFs = 0

C10_Witness ==
    /\ pc = "return"
    /\ outcome = "create"
    /\ flowsheet # 0

====
